---- MODULE Spec2Model ----
(***************************************************************************)
(* grepples: parallel grep over the objects of an S3 bucket.               *)
(*                                                                         *)
(* The model follows src/grepples.go: ConfigureFromFlags, main, the        *)
(* discoverObjects goroutine, the MaxWorkers worker goroutines, the        *)
(* goroutine that waits for the errgroup and closes the result channel,    *)
(* and printResults running on the main goroutine.                         *)
(*                                                                         *)
(* Strings are sequences of bytes (naturals), so that strings.HasSuffix,   *)
(* path.Ext, the byte-wise string comparison of ByTaskKey.Less and the     *)
(* indexing line.Text[len(line.Text)-1] are computed as Go computes them.  *)
(* Regular expressions are restricted to literal patterns over letters,    *)
(* plus the pattern "(" which regexp.MustCompile rejects.                  *)
(***************************************************************************)
EXTENDS Integers, Sequences, FiniteSets, TLC

(***************************************************************************)
(* Bounds of the model.                                                    *)
(***************************************************************************)
\* the most objects the store lists in one run
MaxObjects == 3
\* the most objects on one page of the listing
PageLen == 2
\* the largest -max-workers value tried
MaxW == 2
\* the most lines in one object's (decompressed) body
MaxLines == 1
\* capacity of the tasks channel; 10000 in the source, scaled down so that
\* a full queue is reachable
TasksCap == 1
\* the most boolean flags given a non-default value on one command line
MaxFlags == 2
\* bufio.MaxScanTokenSize, the size of the Scanner's buffer: a line of that
\* many bytes or more does not fit; 65536 in the library, scaled down
MaxScanTokenSize == 2

(***************************************************************************)
(* Byte strings.                                                           *)
(***************************************************************************)
Range(s) == {s[i] : i \in 1..Len(s)}

Min(a, b) == IF a < b THEN a ELSE b

\* strings.HasSuffix
HasSuffix(s, suffix) ==
    /\ Len(s) >= Len(suffix)
    /\ SubSeq(s, Len(s) - Len(suffix) + 1, Len(s)) = suffix

\* s[i:i+len(p)] == p, with i counted from 1
OccursAt(s, i, p) ==
    /\ i + Len(p) - 1 <= Len(s)
    /\ SubSeq(s, i, i + Len(p) - 1) = p

\* Go's s < t on strings: byte-wise lexicographic order
StringLess(s, t) ==
    \E i \in 1..(Min(Len(s), Len(t)) + 1) :
        /\ SubSeq(s, 1, i - 1) = SubSeq(t, 1, i - 1)
        /\ \/ i > Len(s) /\ i <= Len(t)
           \/ i <= Len(s) /\ i <= Len(t) /\ s[i] < t[i]

\* ".gz" and ".bz2"
SuffixGz == <<46, 103, 122>>
SuffixBz2 == <<46, 98, 122, 50>>

\* path.Ext: the suffix beginning at the final dot (byte 46) in the final
\* slash-separated (byte 47) element of the path; empty if there is no dot
Ext(key) ==
    LET dots == {i \in 1..Len(key) :
                    /\ key[i] = 46
                    /\ \A j \in (i + 1)..Len(key) : key[j] \notin {46, 47}}
    IN  IF dots = {} THEN <<>>
        ELSE LET i == CHOOSE d \in dots : TRUE IN SubSeq(key, i, Len(key))

(***************************************************************************)
(* Regular expressions (package regexp), for literal patterns.             *)
(***************************************************************************)
\* whether regexp.MustCompile returns: it panics on an unbalanced "("
\* (byte 40), the one metacharacter of the patterns modelled
Compiles(re) == 40 \notin Range(re)

\* (*Regexp).MatchString: unanchored, so a literal matches as a substring
MatchString(re, text) == \E i \in 1..(Len(text) + 1) : OccursAt(text, i, re)

\* the strings the highlighting wraps a match in: aurora.Bold(aurora.Green(s))
\* renders as ESC[1;32m s ESC[0m
EscOn == <<27, 91, 49, 59, 51, 50, 109>>
EscOff == <<27, 91, 48, 109>>

\* (*Regexp).ReplaceAllStringFunc(text, repl) from byte i on, where repl
\* wraps the match in EscOn/EscOff: leftmost non-overlapping matches; the
\* empty pattern matches before every byte and at the end
RECURSIVE ReplaceFrom(_, _, _)
ReplaceFrom(re, text, i) ==
    IF i > Len(text)
    THEN IF re = <<>> THEN EscOn \o EscOff ELSE <<>>
    ELSE IF re = <<>>
         THEN EscOn \o EscOff \o <<text[i]>> \o ReplaceFrom(re, text, i + 1)
         ELSE IF OccursAt(text, i, re)
              THEN EscOn \o re \o EscOff \o ReplaceFrom(re, text, i + Len(re))
              ELSE <<text[i]>> \o ReplaceFrom(re, text, i + 1)

(***************************************************************************)
(* Content matchers (RegexpMatcherFunc).  Each returns the pair            *)
(* (ResultItem, matched) as a record.                                      *)
(***************************************************************************)
NoItem == [Text |-> <<>>, WidthAdjust |-> 0]

ColourizingMatcher(re, text) ==
    LET ctext == ReplaceFrom(re, text, 1)
    IN  IF ctext # text
        THEN [item |-> [Text |-> ctext, WidthAdjust |-> Len(ctext) - Len(text)],
              matched |-> TRUE]
        ELSE [item |-> NoItem, matched |-> FALSE]

Matcher(re, text) ==
    IF MatchString(re, text)
    THEN [item |-> [Text |-> text, WidthAdjust |-> 0], matched |-> TRUE]
    ELSE [item |-> NoItem, matched |-> FALSE]

\* config.MatcherFunc(matchre, text)
MatcherFunc(name, re, text) ==
    IF name = "ColourizingMatcher" THEN ColourizingMatcher(re, text)
    ELSE Matcher(re, text)

(***************************************************************************)
(* Object filter.                                                          *)
(***************************************************************************)
\* a heuristic that tests the lengths without looking at the suffix
looksLikeNoContentAnySuffix(key, length) == length \in {0, 14, 20}

looksLikeNoContent(key, length) ==
    IF length = 0 THEN TRUE
    ELSE IF HasSuffix(key, SuffixBz2) /\ length = 14 THEN TRUE
    ELSE IF HasSuffix(key, SuffixGz) /\ length = 20 THEN TRUE
    ELSE FALSE

\* a filter that forgets the size heuristic
PassesFilterKeyOnly(keyMatch, obj) == MatchString(keyMatch, obj.Key)

\* the condition under which the listing callback pushes a Task
PassesFilter(keyMatch, obj) ==
    MatchString(keyMatch, obj.Key) /\ ~looksLikeNoContent(obj.Key, obj.Size)

(***************************************************************************)
(* The inputs of a run: the command line and what the store holds.         *)
(***************************************************************************)
\* object keys "B.gz", "a", "a.bz2"
Keys == {<<66, 46, 103, 122>>, <<97>>, <<97, 46, 98, 122, 50>>}

\* declared sizes: the looks-empty signatures 0, 14, 20 and one byte more
Sizes == {0, 1, 14, 15, 20, 21}

\* a listed object: s3.Object's Key and Size
Objects == [Key : Keys, Size : Sizes]

\* -key-match values: "", "a", "("
KeyPatterns == {<<>>, <<97>>, <<40>>}

\* -content-match values: "", "f", "("
ContentPatterns == {<<>>, <<102>>, <<40>>}

\* lines of object bodies: "" and "f"
LineTexts == {<<>>, <<102>>}

\* sequences over S of length 0..n
RECURSIVE SeqsUpTo(_, _)
SeqsUpTo(S, n) ==
    IF n = 0 THEN {<<>>}
    ELSE LET shorter == SeqsUpTo(S, n - 1)
         IN  shorter \cup {Append(q, x) : q \in {r \in shorter : Len(r) = n - 1}, x \in S}

\* a body after decompression: its lines, without the newlines
Bodies == SeqsUpTo(LineTexts, MaxLines)

\* a line of MaxScanTokenSize bytes "f"
LongLine == [i \in 1..MaxScanTokenSize |-> 102]

\* terminal widths ttyWidth may return: a 0-column terminal, a narrow one,
\* and the fallback
TtyWidths == {0, 1, 79}

BoolFlags == {"Colour", "FitToTTY", "ObjectKeys", "ExtraNewlines",
              "OnlyListKeyMatches", "OnlyListMatchingObjects"}

\* the defaults given to flag.Bool
FlagDefault(f) == f \in {"ObjectKeys", "ExtraNewlines"}

\* the boolean flags of command lines that give at most n of them a
\* non-default value
FlagChoices(n) ==
    {c \in [BoolFlags -> BOOLEAN] :
        Cardinality({f \in BoolFlags : c[f] # FlagDefault(f)}) <= n}

\* the Config that flag.Parse fills in, MatcherFunc still unset
ConfigsOf(bools, keyMatches, contentMatches, maxWorkers) ==
    {[Colour |-> b["Colour"], FitToTTY |-> b["FitToTTY"],
      ObjectKeys |-> b["ObjectKeys"], ExtraNewlines |-> b["ExtraNewlines"],
      OnlyListKeyMatches |-> b["OnlyListKeyMatches"],
      OnlyListMatchingObjects |-> b["OnlyListMatchingObjects"],
      KeyMatch |-> km, ContentMatch |-> cm, MaxWorkers |-> mw,
      MatcherFunc |-> "nil"] :
        b \in bools, km \in keyMatches, cm \in contentMatches, mw \in maxWorkers}

\* the listings of at most n objects with distinct keys from ks and sizes
\* from zs, in any listing order
BucketsOf(ks, zs, n) ==
    {bk \in SeqsUpTo([Key : ks, Size : zs], n) :
        \A i, j \in 1..Len(bk) : i # j => bk[i].Key # bk[j].Key}

(***************************************************************************)
(* State.                                                                  *)
(***************************************************************************)
VARIABLES
    config,        \* *Config
    bucket,        \* what the store lists under the prefix, in listing order
    proc,          \* the process: "start", "configured", "running", or how it
                   \* ended: "exit0" (main returned), "fatal" (log.Fatalf,
                   \* exit status 1), "panic" (exit status 2)
    dpc,           \* discoverObjects: "list" (in ListObjectsV2Pages, between
                   \* pages), "page" (in the callback), "done" (returned)
    dpage,         \* the objects of the current page not yet looked at
    dlast,         \* whether the current page is the last one
    tasks,         \* the tasks channel's buffer
    tasksClosed,   \* close(tasks) has run
    worker,        \* per worker: pc ("recv", "search", "send", "exited"),
                   \* task, result
    ctxDone,       \* the errgroup's context is cancelled
    groupErr,      \* the errgroup's first non-nil error ("nil" if none)
    outputClosed,  \* close(output) has run
    results,       \* printResults' results slice
    sorted,        \* sort.Sort(ByTaskKey(results)) has run
    stdout,        \* the lines printed on standard output
    fatalMsg,      \* the message of the log.Fatalf that ended the run, if any
    arrival,       \* history: the keys of the Results in the order received
    listed,        \* history: the objects the listing callback has looked at
    pushed,        \* history: the keys of the Tasks pushed, in order
    fetched,       \* history: the keys GetObject was called with
    failed         \* history: the keys whose search error was logged

vars == <<config, bucket, proc, dpc, dpage, dlast, tasks, tasksClosed, worker,
          ctxDone, groupErr, outputClosed, results, sorted, stdout, fatalMsg, arrival,
          listed, pushed, fetched, failed>>

NoTask == [Key |-> <<>>]
NoResult == [Task |-> NoTask, Output |-> <<>>]

Workers == 1..config.MaxWorkers

\* the state in which main starts, for a command line among cfgs and a
\* store content among buckets
Start(cfgs, buckets) ==
    /\ config \in cfgs
    /\ bucket \in buckets
    /\ proc = "start"
    /\ dpc = "list"
    /\ dpage = <<>>
    /\ dlast = FALSE
    /\ tasks = <<>>
    /\ tasksClosed = FALSE
    /\ worker = [w \in 1..config.MaxWorkers |->
                    [pc |-> "recv", task |-> NoTask, result |-> NoResult]]
    /\ ctxDone = FALSE
    /\ groupErr = "nil"
    /\ outputClosed = FALSE
    /\ results = <<>>
    /\ sorted = FALSE
    /\ stdout = <<>>
    /\ fatalMsg = ""
    /\ arrival = <<>>
    /\ listed = <<>>
    /\ pushed = <<>>
    /\ fetched = {}
    /\ failed = {}

(***************************************************************************)
(* ConfigureFromFlags and the start of main.                               *)
(***************************************************************************)
\* a ConfigureFromFlags without the test of -fit-to-tty with -colour
ConfigureFromFlagsUnchecked ==
    /\ proc = "start"
    /\ config' = [config EXCEPT !.MatcherFunc =
                     IF config.Colour THEN "ColourizingMatcher" ELSE "Matcher"]
    /\ proc' = "configured"
    /\ UNCHANGED <<bucket, sorted, dpc, dpage, dlast, tasks, tasksClosed,
                   worker, ctxDone, groupErr, outputClosed, results, stdout,
                   listed, pushed, fetched, failed, fatalMsg, arrival>>

ConfigureFromFlags ==
    /\ proc = "start"
    /\ IF config.FitToTTY /\ config.Colour
       THEN /\ proc' = "fatal"
            /\ fatalMsg' = "cannot use -fit-to-tty and -colour simultaneously"
            /\ UNCHANGED config
       ELSE /\ config' = [config EXCEPT !.MatcherFunc =
                             IF config.Colour THEN "ColourizingMatcher" ELSE "Matcher"]
            /\ proc' = "configured"
            /\ UNCHANGED fatalMsg
    /\ UNCHANGED <<bucket, sorted, dpc, dpage, dlast, tasks, tasksClosed,
                   worker, ctxDone, groupErr, outputClosed, results, stdout,
                   listed, pushed, fetched, failed, arrival>>

\* main up to the call of printResults: session.NewSession fails, or the
\* channels are made and the discoverer, the workers and the waiting
\* goroutine are started
mainStart ==
    /\ proc = "configured"
    /\ \E sessionErr \in BOOLEAN :
          IF sessionErr
          THEN /\ proc' = "fatal"
               /\ fatalMsg' = "error setting up S3 client"
          ELSE /\ proc' = "running"
               /\ UNCHANGED fatalMsg
    /\ UNCHANGED <<config, bucket, sorted, dpc, dpage, dlast, tasks,
                   tasksClosed, worker, ctxDone, groupErr, outputClosed,
                   results, stdout, listed, pushed, fetched, failed, arrival>>

\* a function passed to workerGroup.Go returns err: the first non-nil error
\* is kept and cancels the context
GroupErrAfter(err) == IF groupErr = "nil" THEN err ELSE groupErr

(***************************************************************************)
(* discoverObjects.                                                        *)
(***************************************************************************)
\* the page ListObjectsV2Pages requests next: the next PageLen objects
NextPage == SubSeq(bucket, Len(listed) + 1, Min(Len(listed) + PageLen, Len(bucket)))

\* a discoverer that returns the listing error to the errgroup instead of
\* ending the process
DiscoverListReturnsError ==
    /\ proc = "running"
    /\ dpc = "list"
    /\ \E listErr \in BOOLEAN :
          IF listErr
          THEN /\ fatalMsg' = "error listing objects"
               /\ dpc' = "done"
               /\ tasksClosed' = TRUE
               /\ groupErr' = GroupErrAfter("error listing objects")
               /\ ctxDone' = TRUE
               /\ UNCHANGED <<dpage, dlast>>
          ELSE /\ dpage' = NextPage
               /\ dlast' = (Len(listed) + Len(NextPage) = Len(bucket))
               /\ dpc' = "page"
               /\ UNCHANGED <<fatalMsg, tasksClosed, groupErr, ctxDone>>
    /\ UNCHANGED <<config, bucket, proc, tasks, worker, outputClosed, results,
                   sorted, stdout, listed, pushed, fetched, failed, arrival>>

\* regexp.MustCompile(*config.KeyMatch), whose panic runs the deferred
\* close(tasks) before it ends the process; then one page request of
\* ListObjectsV2Pages: an error (log.Fatalf, which runs no deferred call) or
\* a page handed to the callback
DiscoverList ==
    /\ proc = "running"
    /\ dpc = "list"
    /\ IF ~Compiles(config.KeyMatch)
       THEN /\ proc' = "panic"
            /\ tasksClosed' = TRUE
            /\ UNCHANGED <<dpc, dpage, dlast, fatalMsg>>
       ELSE \E listErr \in BOOLEAN :
              IF listErr
              THEN /\ proc' = "fatal"
                   /\ fatalMsg' = "error listing objects"
                   /\ UNCHANGED <<dpc, dpage, dlast, tasksClosed>>
              ELSE /\ dpage' = NextPage
                   /\ dlast' = (Len(listed) + Len(NextPage) = Len(bucket))
                   /\ dpc' = "page"
                   /\ UNCHANGED <<proc, fatalMsg, tasksClosed>>
    /\ UNCHANGED <<config, bucket, tasks, worker, ctxDone,
                   groupErr, outputClosed, results, sorted, stdout, listed,
                   pushed, fetched, failed, arrival>>

\* a callback whose send never blocks
DiscoverPushUnbounded ==
    /\ proc = "running"
    /\ dpc = "page"
    /\ dpage # <<>>
    /\ LET obj == Head(dpage)
       IN  /\ IF PassesFilter(config.KeyMatch, obj)
              THEN /\ tasks' = Append(tasks, [Key |-> obj.Key])
                   /\ pushed' = Append(pushed, obj.Key)
              ELSE UNCHANGED <<tasks, pushed>>
           /\ listed' = Append(listed, obj)
    /\ dpage' = Tail(dpage)
    /\ dpc' = IF Tail(dpage) = <<>> /\ ~dlast THEN "list" ELSE "page"
    /\ UNCHANGED <<config, bucket, sorted, proc, dlast, tasksClosed, worker,
                   ctxDone, groupErr, outputClosed, results, stdout, fetched,
                   failed, fatalMsg, arrival>>

\* one iteration of the callback's loop over page.Contents; the send
\* blocks while the channel's buffer is full
DiscoverPush ==
    /\ proc = "running"
    /\ dpc = "page"
    /\ dpage # <<>>
    /\ LET obj == Head(dpage)
       IN  /\ IF PassesFilter(config.KeyMatch, obj)
              THEN /\ Len(tasks) < TasksCap
                   /\ tasks' = Append(tasks, [Key |-> obj.Key])
                   /\ pushed' = Append(pushed, obj.Key)
              ELSE UNCHANGED <<tasks, pushed>>
           /\ listed' = Append(listed, obj)
    /\ dpage' = Tail(dpage)
    /\ dpc' = IF Tail(dpage) = <<>> /\ ~dlast THEN "list" ELSE "page"
    /\ UNCHANGED <<config, bucket, sorted, proc, dlast, tasksClosed, worker,
                   ctxDone, groupErr, outputClosed, results, stdout, fetched,
                   failed, fatalMsg, arrival>>

\* a discoverer that returns a non-nil error after the last page, which
\* cancels the context of the group
DiscoverReturnCancels ==
    /\ proc = "running"
    /\ dpc = "page"
    /\ dpage = <<>>
    /\ dlast
    /\ tasksClosed' = TRUE
    /\ dpc' = "done"
    /\ groupErr' = GroupErrAfter("discover error")
    /\ ctxDone' = TRUE
    /\ UNCHANGED <<config, bucket, sorted, proc, dpage, dlast, tasks, worker,
                   outputClosed, results, stdout, listed,
                   pushed, fetched, failed, fatalMsg, arrival>>

\* a discoverer that returns, and closes the channel, in the middle of a page
DiscoverReturnEarly ==
    /\ proc = "running"
    /\ dpc = "page"
    /\ tasksClosed' = TRUE
    /\ dpc' = "done"
    /\ UNCHANGED <<config, bucket, sorted, proc, dpage, dlast, tasks, worker,
                   ctxDone, groupErr, outputClosed, results, stdout, listed,
                   pushed, fetched, failed, fatalMsg, arrival>>

\* ListObjectsV2Pages returns nil after the last page: return nil, and the
\* deferred close(tasks) closes the tasks channel
DiscoverReturn ==
    /\ proc = "running"
    /\ dpc = "page"
    /\ dpage = <<>>
    /\ dlast
    /\ tasksClosed' = TRUE
    /\ dpc' = "done"
    /\ UNCHANGED <<config, bucket, sorted, proc, dpage, dlast, tasks, worker,
                   ctxDone, groupErr, outputClosed, results, stdout, listed,
                   pushed, fetched, failed, fatalMsg, arrival>>

(***************************************************************************)
(* searchObject.                                                           *)
(***************************************************************************)
\* what the store answers to one GetObject: an error, or a body that does
\* not start with a gzip header, or a body with the lines the scanner reads
\* (after decompression, for a key ending in .gz or .bz2)
Responses ==
    {[getErr |-> TRUE, gzHeaderOK |-> FALSE, body |-> <<>>],
     [getErr |-> FALSE, gzHeaderOK |-> FALSE, body |-> <<>>]}
    \cup [getErr : {FALSE}, gzHeaderOK : {TRUE}, body : Bodies]

\* what the store can answer to GetObject for key: where the store's content
\* is given (the object has a Body), a successful fetch returns that body,
\* behind a gzip header or not
ResponsesFor(key) ==
    LET given == {i \in 1..Len(bucket) :
                     bucket[i].Key = key /\ "Body" \in DOMAIN bucket[i]}
    IN  IF given = {} THEN Responses
        ELSE {r \in Responses : r.getErr}
             \cup {[getErr |-> FALSE, gzHeaderOK |-> h, body |-> bucket[i].Body] :
                      i \in given, h \in BOOLEAN}

\* TransparentExpandingReader: only gzip.NewReader can fail; the result is
\* [err, lines]
TransparentExpandingReader(key, resp) ==
    IF Ext(key) = SuffixGz
    THEN IF resp.gzHeaderOK
         THEN [err |-> FALSE, lines |-> resp.body]
         ELSE [err |-> TRUE, lines |-> <<>>]
    ELSE [err |-> FALSE, lines |-> resp.body]

\* the scanner loop over the lines of the body: the ResultItems of the
\* lines config.MatcherFunc matches. scanner.Scan() returns false at the end
\* of the body and also at a line too long for the Scanner's buffer
\* (bufio.ErrTooLong); the loop ends there and scanner.Err() is not looked at
RECURSIVE ScanLines(_, _, _)
ScanLines(cfg, lines, out) ==
    IF lines = <<>> THEN out
    ELSE IF Len(Head(lines)) >= MaxScanTokenSize THEN out
    ELSE LET m == MatcherFunc(cfg.MatcherFunc, cfg.ContentMatch, Head(lines))
         IN  ScanLines(cfg, Tail(lines),
                       IF m.matched THEN Append(out, m.item) ELSE out)

\* a searchObject that fetches and scans whatever the mode
searchObjectAlwaysFetches(cfg, task, resp) ==
    IF resp.getErr
    THEN [err |-> TRUE, result |-> NoResult, fetch |-> TRUE]
    ELSE LET reader == TransparentExpandingReader(task.Key, resp)
         IN  IF reader.err
             THEN [err |-> TRUE, result |-> NoResult, fetch |-> TRUE]
             ELSE [err |-> FALSE,
                   result |-> [Task |-> task,
                               Output |-> ScanLines(cfg, reader.lines, <<>>)],
                   fetch |-> TRUE]

\* searchObject(ctx, config, svc, id, task) given the store's answer:
\* [err, result, fetch], fetch saying whether GetObject was called
searchObject(cfg, task, resp) ==
    IF cfg.OnlyListKeyMatches
    THEN [err |-> FALSE, result |-> [Task |-> task, Output |-> <<>>], fetch |-> FALSE]
    ELSE IF resp.getErr
    THEN [err |-> TRUE, result |-> NoResult, fetch |-> TRUE]
    ELSE LET reader == TransparentExpandingReader(task.Key, resp)
         IN  IF reader.err
             THEN [err |-> TRUE, result |-> NoResult, fetch |-> TRUE]
             ELSE [err |-> FALSE,
                   result |-> [Task |-> task,
                               Output |-> ScanLines(cfg, reader.lines, <<>>)],
                   fetch |-> TRUE]

(***************************************************************************)
(* The worker goroutines of main.                                          *)
(***************************************************************************)
\* a receive that leaves the Task in the channel
WorkerRecvPeek(w) ==
    /\ proc = "running"
    /\ worker[w].pc = "recv"
    /\ IF tasks # <<>>
       THEN worker' = [worker EXCEPT ![w] = [pc |-> "search", task |-> Head(tasks),
                                             result |-> NoResult]]
       ELSE /\ tasksClosed
            /\ worker' = [worker EXCEPT ![w] = [pc |-> "exited", task |-> NoTask,
                                                result |-> NoResult]]
    /\ UNCHANGED <<config, bucket, sorted, proc, dpc, dpage, dlast, tasks, tasksClosed,
                   ctxDone, groupErr, outputClosed, results, stdout, listed,
                   pushed, fetched, failed, fatalMsg, arrival>>

\* for task := range tasks: take the next Task, or leave the loop and
\* return nil once the channel is closed and drained
WorkerRecv(w) ==
    /\ proc = "running"
    /\ worker[w].pc = "recv"
    /\ IF tasks # <<>>
       THEN /\ worker' = [worker EXCEPT ![w] = [pc |-> "search", task |-> Head(tasks),
                                                result |-> NoResult]]
            /\ tasks' = Tail(tasks)
       ELSE /\ tasksClosed
            /\ worker' = [worker EXCEPT ![w] = [pc |-> "exited", task |-> NoTask,
                                                result |-> NoResult]]
            /\ UNCHANGED tasks
    /\ UNCHANGED <<config, bucket, sorted, proc, dpc, dpage, dlast, tasksClosed,
                   ctxDone, groupErr, outputClosed, results, stdout, listed,
                   pushed, fetched, failed, fatalMsg, arrival>>

\* a worker that returns the search error to the errgroup, which cancels
\* the context
WorkerSearchReturnsError(w) ==
    /\ proc = "running"
    /\ worker[w].pc = "search"
    /\ IF ~config.OnlyListKeyMatches /\ ~Compiles(config.ContentMatch)
       THEN /\ proc' = "panic"
            /\ UNCHANGED <<worker, fetched, failed, ctxDone, groupErr>>
       ELSE \E resp \in ResponsesFor(worker[w].task.Key) :
              LET t == worker[w].task
                  r == searchObject(config, t, resp)
              IN  /\ fetched' = IF r.fetch THEN fetched \cup {t.Key} ELSE fetched
                  /\ IF r.err
                     THEN /\ failed' = failed \cup {t.Key}
                          /\ worker' = [worker EXCEPT ![w] =
                                           [pc |-> "exited", task |-> NoTask,
                                            result |-> NoResult]]
                          /\ groupErr' = GroupErrAfter("search error")
                          /\ ctxDone' = TRUE
                     ELSE /\ worker' = [worker EXCEPT ![w] =
                                           [pc |-> "send", task |-> t,
                                            result |-> r.result]]
                          /\ UNCHANGED <<failed, ctxDone, groupErr>>
                  /\ UNCHANGED proc
    /\ UNCHANGED <<config, bucket, sorted, dpc, dpage, dlast, tasks,
                   tasksClosed, outputClosed, results,
                   stdout, listed, pushed, fatalMsg, arrival>>

\* a worker that logs the search error and goes on with the next Task
WorkerSearchContinues(w) ==
    /\ proc = "running"
    /\ worker[w].pc = "search"
    /\ IF ~config.OnlyListKeyMatches /\ ~Compiles(config.ContentMatch)
       THEN /\ proc' = "panic"
            /\ UNCHANGED <<worker, fetched, failed>>
       ELSE \E resp \in ResponsesFor(worker[w].task.Key) :
              LET t == worker[w].task
                  r == searchObject(config, t, resp)
              IN  /\ fetched' = IF r.fetch THEN fetched \cup {t.Key} ELSE fetched
                  /\ IF r.err
                     THEN /\ failed' = failed \cup {t.Key}
                          /\ worker' = [worker EXCEPT ![w] =
                                           [pc |-> "recv", task |-> NoTask,
                                            result |-> NoResult]]
                     ELSE /\ worker' = [worker EXCEPT ![w] =
                                           [pc |-> "send", task |-> t,
                                            result |-> r.result]]
                          /\ UNCHANGED failed
                  /\ UNCHANGED proc
    /\ UNCHANGED <<config, bucket, sorted, dpc, dpage, dlast, tasks,
                   tasksClosed, ctxDone, groupErr, outputClosed, results,
                   stdout, listed, pushed, fatalMsg, arrival>>

\* the call of searchObject and the test of its error: on an error the
\* worker logs it and returns nil
WorkerSearch(w) ==
    /\ proc = "running"
    /\ worker[w].pc = "search"
    /\ IF ~config.OnlyListKeyMatches /\ ~Compiles(config.ContentMatch)
       THEN /\ proc' = "panic"
            /\ UNCHANGED <<worker, fetched, failed>>
       ELSE \E resp \in ResponsesFor(worker[w].task.Key) :
              LET t == worker[w].task
                  r == searchObject(config, t, resp)
              IN  /\ fetched' = IF r.fetch THEN fetched \cup {t.Key} ELSE fetched
                  /\ IF r.err
                     THEN /\ failed' = failed \cup {t.Key}
                          /\ worker' = [worker EXCEPT ![w] =
                                           [pc |-> "exited", task |-> NoTask,
                                            result |-> NoResult]]
                     ELSE /\ worker' = [worker EXCEPT ![w] =
                                           [pc |-> "send", task |-> t,
                                            result |-> r.result]]
                          /\ UNCHANGED failed
                  /\ UNCHANGED proc
    /\ UNCHANGED <<config, bucket, sorted, dpc, dpage, dlast, tasks,
                   tasksClosed, ctxDone, groupErr, outputClosed, results,
                   stdout, listed, pushed, fatalMsg, arrival>>

\* the cases of the select that are ready: printResults receives from
\* output as long as it is open; ctx.Done() is ready once ctx is cancelled
ReadyCases == (IF ~outputClosed THEN {"send"} ELSE {})
              \cup (IF ctxDone THEN {"done"} ELSE {})

\* select { case output <- result: ; case <-ctx.Done(): return ctx.Err() }
WorkerSelect(w) ==
    /\ proc = "running"
    /\ worker[w].pc = "send"
    /\ \E c \in ReadyCases :
          IF c = "send"
          THEN /\ results' = Append(results, worker[w].result)
               /\ arrival' = Append(arrival, worker[w].result.Task.Key)
               /\ worker' = [worker EXCEPT ![w] = [pc |-> "recv", task |-> NoTask,
                                                   result |-> NoResult]]
               /\ UNCHANGED <<ctxDone, groupErr>>
          ELSE /\ worker' = [worker EXCEPT ![w] = [pc |-> "exited", task |-> NoTask,
                                                   result |-> NoResult]]
               /\ groupErr' = GroupErrAfter("context canceled")
               /\ ctxDone' = TRUE
               /\ UNCHANGED <<results, arrival>>
    /\ UNCHANGED <<config, bucket, sorted, proc, dpc, dpage, dlast, tasks,
                   tasksClosed, outputClosed, stdout, listed, pushed, fetched,
                   failed, fatalMsg>>

\* a Wait that returns as soon as the discoverer has returned
GroupFinishedDiscovererOnly == dpc = "done"

\* every function passed to workerGroup.Go has returned
GroupFinished == dpc = "done" /\ \A w \in Workers : worker[w].pc = "exited"

\* go func() { workerGroup.Wait(); close(output) }(): Wait returns when the
\* group has finished, and cancels the context
WaitClose ==
    /\ proc = "running"
    /\ ~outputClosed
    /\ GroupFinished
    /\ ctxDone' = TRUE
    /\ outputClosed' = TRUE
    /\ UNCHANGED <<config, bucket, sorted, proc, dpc, dpage, dlast, tasks,
                   tasksClosed, worker, groupErr, results, stdout, listed,
                   pushed, fetched, failed, fatalMsg, arrival>>

(***************************************************************************)
(* printResults.                                                           *)
(***************************************************************************)
\* a Less that never orders two elements, which leaves the slice as received
ByTaskKeyLessNever(a, i, j) == FALSE

\* a Less that compares the wrong way round
ByTaskKeyLessReversed(a, i, j) == StringLess(a[j].Task.Key, a[i].Task.Key)

\* ByTaskKey.Less and ByTaskKey.Swap on a slice a
ByTaskKeyLess(a, i, j) == StringLess(a[i].Task.Key, a[j].Task.Key)

ByTaskKeySwap(a, i, j) == [a EXCEPT ![i] = a[j], ![j] = a[i]]

\* sort.Sort on a slice of fewer than 7 elements is an insertion sort:
\* for i := 1; i < n; i++ { for j := i; j > 0 && Less(j, j-1); j-- { Swap(j, j-1) } }
RECURSIVE InsertDown(_, _)
InsertDown(a, j) ==
    IF j > 1 /\ ByTaskKeyLess(a, j, j - 1)
    THEN InsertDown(ByTaskKeySwap(a, j, j - 1), j - 1)
    ELSE a

RECURSIVE InsertionSortFrom(_, _)
InsertionSortFrom(a, i) ==
    IF i > Len(a) THEN a ELSE InsertionSortFrom(InsertDown(a, i), i + 1)

SortByTaskKey(a) == InsertionSortFrom(a, 2)

\* leftN(s, n); its slice expression s[:n] panics for a negative n
leftN(s, n) ==
    IF n = 0 THEN s
    ELSE IF n > Len(s) THEN s
    ELSE SubSeq(s, 1, n)

leftNPanics(s, n) == n < 0

\* the decimal digits fmt prints for %d
RECURSIVE Itoa(_)
Itoa(n) == IF n < 10 THEN <<48 + n>> ELSE Itoa(n \div 10) \o <<48 + (n % 10)>>

\* fmt.Printf("%s (%d matches):\n", key, n), without the newline
HeaderLine(key, n) ==
    key \o <<32, 40>> \o Itoa(n) \o <<32, 109, 97, 116, 99, 104, 101, 115, 41, 58>>

\* the loop over result.Output: [lines, panic]. Without -fit-to-tty the
\* index expression line.Text[len(line.Text)-1] panics on an empty Text;
\* otherwise the text is printed with one newline at its end
RECURSIVE RenderItems(_, _, _, _)
RenderItems(cfg, width, items, out) ==
    IF items = <<>> THEN [lines |-> out, panic |-> FALSE]
    ELSE LET line == Head(items)
         IN  IF cfg.FitToTTY
             THEN IF leftNPanics(line.Text, width + line.WidthAdjust)
                  THEN [lines |-> out, panic |-> TRUE]
                  ELSE RenderItems(cfg, width, Tail(items),
                           Append(out, leftN(line.Text, width + line.WidthAdjust)))
             ELSE IF Len(line.Text) = 0
                  THEN [lines |-> out, panic |-> TRUE]
                  ELSE RenderItems(cfg, width, Tail(items),
                           Append(out, IF line.Text[Len(line.Text)] # 10
                                       THEN line.Text
                                       ELSE SubSeq(line.Text, 1, Len(line.Text) - 1)))

\* one iteration of the loop over results: [lines, panic]
RenderResult(cfg, width, result) ==
    IF cfg.OnlyListKeyMatches \/ cfg.OnlyListMatchingObjects
    THEN [lines |-> <<result.Task.Key>>, panic |-> FALSE]
    ELSE IF Len(result.Output) = 0
    THEN [lines |-> <<>>, panic |-> FALSE]
    ELSE LET header == IF cfg.ObjectKeys
                       THEN <<HeaderLine(result.Task.Key, Len(result.Output))>>
                       ELSE <<>>
             body == RenderItems(cfg, width, result.Output, header)
         IN  IF body.panic THEN body
             ELSE [lines |-> body.lines
                             \o (IF cfg.ExtraNewlines THEN << <<>> >> ELSE <<>>)
                             \o (IF cfg.ObjectKeys THEN << <<>> >> ELSE <<>>),
                   panic |-> FALSE]

\* the loop over the sorted results; a panic ends it
RECURSIVE RenderResults(_, _, _, _)
RenderResults(cfg, width, rs, out) ==
    IF rs = <<>> THEN [lines |-> out, panic |-> FALSE]
    ELSE LET r == RenderResult(cfg, width, Head(rs))
         IN  IF r.panic THEN [lines |-> out \o r.lines, panic |-> TRUE]
             ELSE RenderResults(cfg, width, Tail(rs), out \o r.lines)

\* a printResults that prints without waiting for the channel to be closed
printResultsEarly ==
    /\ proc = "running"
    /\ ~sorted
    /\ \E ttyWidth \in TtyWidths :
          LET ordered == SortByTaskKey(results)
              out == RenderResults(config, ttyWidth, ordered, <<>>)
          IN  /\ results' = ordered
              /\ sorted' = TRUE
              /\ stdout' = out.lines
              /\ proc' = IF out.panic THEN "panic" ELSE "exit0"
    /\ UNCHANGED <<config, bucket, dpc, dpage, dlast, tasks, tasksClosed, worker,
                   ctxDone, groupErr, outputClosed, listed, pushed, fetched, failed,
                   fatalMsg, arrival>>

\* printResults once the range over output ends (the channel is closed), and
\* main's return after it
printResults ==
    /\ proc = "running"
    /\ outputClosed
    /\ ~sorted
    /\ \E ttyWidth \in TtyWidths :
          LET ordered == SortByTaskKey(results)
              out == RenderResults(config, ttyWidth, ordered, <<>>)
          IN  /\ results' = ordered
              /\ sorted' = TRUE
              /\ stdout' = out.lines
              /\ proc' = IF out.panic THEN "panic" ELSE "exit0"
    /\ UNCHANGED <<config, bucket, dpc, dpage, dlast, tasks, tasksClosed,
                   worker, ctxDone, groupErr, outputClosed, listed, pushed,
                   fetched, failed, fatalMsg, arrival>>

(***************************************************************************)
(* Specifications.                                                         *)
(***************************************************************************)
Next ==
    \/ ConfigureFromFlags
    \/ mainStart
    \/ DiscoverList
    \/ DiscoverPush
    \/ DiscoverReturn
    \/ \E w \in Workers : WorkerRecv(w)
    \/ \E w \in Workers : WorkerSearch(w)
    \/ \E w \in Workers : WorkerSelect(w)
    \/ WaitClose
    \/ printResults

\* runs of the pipeline: default flags but for -only-list-key-matches, every
\* pattern and worker count, stores of objects that are empty or not
Init ==
    Start(ConfigsOf({c \in FlagChoices(1) : \A f \in BoolFlags \ {"OnlyListKeyMatches"} :
                                                c[f] = FlagDefault(f)},
                    KeyPatterns, ContentPatterns, 0..MaxW),
          BucketsOf(Keys, {0, 21}, MaxObjects))

Spec == Init /\ [][Next]_vars

\* the Go scheduler does not stop while some goroutine can take a step
Fairness == WF_vars(Next)

\* runs in which every listed object becomes a Task, with at least one
\* worker and patterns that compile; the store lists in ascending key
\* order, as S3 does
FairInit ==
    Start(ConfigsOf(FlagChoices(0), {<<>>}, {<<102>>}, 1..MaxW),
          {bk \in BucketsOf(Keys, {21}, MaxObjects) :
              \A i, j \in 1..Len(bk) : i < j => StringLess(bk[i].Key, bk[j].Key)})

FairSpec == FairInit /\ [][Next]_vars /\ Fairness

\* runs over a store of at most one object "a", for every command line that
\* gives at most MaxFlags boolean flags, with at most one worker
ConfigInit ==
    Start(ConfigsOf(FlagChoices(MaxFlags), KeyPatterns, ContentPatterns, 0..1),
          BucketsOf({<<97>>}, {0, 21}, 1))

SpecConfig == ConfigInit /\ [][Next]_vars

\* runs of one worker over stores of at most two objects of every key and
\* size, for every key pattern, with and without -only-list-key-matches
FilterInit ==
    Start(ConfigsOf({c \in FlagChoices(1) : \A f \in BoolFlags \ {"OnlyListKeyMatches"} :
                                                c[f] = FlagDefault(f)},
                    KeyPatterns, {<<102>>}, {1}),
          BucketsOf(Keys, Sizes, 2))

SpecFilter == FilterInit /\ [][Next]_vars

\* runs of one worker over a store of one object whose content is given:
\* every key, every body of at most MaxLines + 1 lines, among them a line
\* too long for the Scanner, with and without -colour, for the content
\* patterns that compile
ScanInit ==
    Start(ConfigsOf({c \in FlagChoices(1) : \A f \in BoolFlags \ {"Colour"} :
                                                c[f] = FlagDefault(f)},
                    {<<>>}, {<<>>, <<102>>}, {1}),
          {<<[Key |-> k, Size |-> 21, Body |-> b]>> :
              k \in Keys, b \in SeqsUpTo(LineTexts \cup {LongLine}, MaxLines + 1)})

SpecScan == ScanInit /\ [][Next]_vars

(***************************************************************************)
(* Vocabulary of the claims.                                               *)
(***************************************************************************)
\* the process has ended
Terminated == proc \in {"exit0", "fatal", "panic"}

\* both patterns compile, so no regexp.MustCompile panics
PatternsCompile == Compiles(config.KeyMatch) /\ Compiles(config.ContentMatch)

\* how many Results the collector holds for the Task with key k
ResultsFor(k) == Cardinality({j \in 1..Len(results) : results[j].Task.Key = k})

PushedKeys == {pushed[i] : i \in 1..Len(pushed)}

ResultKeys == {results[j].Task.Key : j \in 1..Len(results)}

(***************************************************************************)
(* C1.  Every Task pushed onto the task queue ends with exactly one Result *)
(* at the collector, or the run fails: a run that ends with status 0 has   *)
(* exactly one Result for every pushed Task.  Stated for runs with at      *)
(* least one worker (without workers no Task is ever dequeued).            *)
(***************************************************************************)
C1_EveryTaskResultOrRunFails ==
    (proc = "exit0" /\ config.MaxWorkers >= 1)
        => \A i \in 1..Len(pushed) : ResultsFor(pushed[i]) = 1

(***************************************************************************)
(* C2.  Whatever the order in which the workers deliver the Results, the   *)
(* collector renders them in ascending byte-wise order of Task.Key: the    *)
(* sorted slice holds the received Results in strictly ascending key       *)
(* order, a key listing prints exactly that sequence of keys, and in a     *)
(* full report the header of a smaller key comes before that of a larger.  *)
(***************************************************************************)
IsHeaderOf(line, r) ==
    Len(r.Output) > 0 /\ line = HeaderLine(r.Task.Key, Len(r.Output))

C3_AlwaysTerminates ==
    (proc = "running" /\ config.MaxWorkers >= 1 /\ PatternsCompile) => ENABLED Next

(***************************************************************************)
(* C4.  If fewer Tasks fail in searchObject than there are workers, the    *)
(* run completes (the collector gets to sort its Results, unless the       *)
(* listing fails or a pattern does not compile), and the collector then    *)
(* holds exactly one Result for every pushed Task that did not fail:       *)
(* as many Results as pushed Tasks minus failed ones.                      *)
(***************************************************************************)
FewerFailuresThanWorkers == Cardinality(failed) < config.MaxWorkers

C4_SurvivorsAllCollected ==
    /\ [](sorted /\ FewerFailuresThanWorkers =>
            /\ ResultKeys = PushedKeys \ failed
            /\ \A k \in ResultKeys : ResultsFor(k) = 1
            /\ Len(results) = Len(pushed) - Cardinality(failed))
    /\ <>(sorted \/ ~FewerFailuresThanWorkers \/ proc \in {"fatal", "panic"})

\* one of two workers failed on a Task, and the run completed with Results
C4_Witness ==
    /\ sorted
    /\ failed # {}
    /\ FewerFailuresThanWorkers
    /\ Len(results) >= 2

(***************************************************************************)
(* C5.  A failed listing ends the whole run at once with a failure status, *)
(* and nothing is printed, not even a Result the collector already holds.  *)
(***************************************************************************)
ListingFailed == fatalMsg = "error listing objects"

C5_ListingFailureFatalNoOutput ==
    ListingFailed => (proc = "fatal" /\ stdout = <<>> /\ ~sorted /\ ~ENABLED Next)

\* the listing failed on a later page, after a Result had been delivered
C5_Witness == ListingFailed /\ Len(results) >= 1 /\ listed # <<>>

(***************************************************************************)
(* C6.  Nothing is printed before the result channel is closed, and the    *)
(* result channel is closed only after the discoverer and every worker     *)
(* have returned.                                                          *)
(***************************************************************************)
C6_OutputAfterAllExited ==
    /\ (stdout # <<>> \/ sorted) => outputClosed
    /\ outputClosed => (dpc = "done" /\ \A w \in Workers : worker[w].pc = "exited")

\* lines were printed in a run with two workers
C6_Witness == stdout # <<>> /\ config.MaxWorkers >= 2 /\ Len(results) >= 2

(***************************************************************************)
(* C7.  A command line with both -colour and -fit-to-tty is rejected as a  *)
(* fatal configuration error before any concurrent work: no listing call,  *)
(* no Task, no fetch and no output ever happen in such a run.              *)
(***************************************************************************)
C7_ColourWithFitToTTYRejected ==
    (config.Colour /\ config.FitToTTY) =>
        /\ proc \in {"start", "fatal"}
        /\ proc = "fatal" =>
              fatalMsg = "cannot use -fit-to-tty and -colour simultaneously"
        /\ dpc = "list" /\ listed = <<>> /\ ~ListingFailed
        /\ pushed = <<>> /\ tasks = <<>>
        /\ fetched = {}
        /\ stdout = <<>>

\* the run with both flags has ended in the fatal error
C7_Witness == config.Colour /\ config.FitToTTY /\ proc = "fatal"

(***************************************************************************)
(* C8.  The discoverer creates no Task for a listed object if and only if  *)
(* its key does not match the key pattern or its declared size is a        *)
(* looks-empty signature for its suffix (0 for any key, 14 for .bz2, 20    *)
(* for .gz); every other listed object becomes exactly one Task.           *)
(***************************************************************************)
\* the looks-empty sizes of a key, by its extension
LooksEmptySignatures(key) ==
    {0} \cup (IF Ext(key) = SuffixBz2 THEN {14} ELSE {})
        \cup (IF Ext(key) = SuffixGz THEN {20} ELSE {})

Excluded(obj) ==
    \/ ~MatchString(config.KeyMatch, obj.Key)
    \/ obj.Size \in LooksEmptySignatures(obj.Key)

TasksFor(k) == Cardinality({i \in 1..Len(pushed) : pushed[i] = k})

C8_FilterExcludesExactly ==
    \A i \in 1..Len(listed) :
        TasksFor(listed[i].Key) = IF Excluded(listed[i]) THEN 0 ELSE 1

\* one object was excluded for its archive signature size, another one of
\* the same size became a Task
C8_Witness ==
    \E i, j \in 1..Len(listed) :
        /\ listed[i].Size \in {14, 20}
        /\ listed[j].Size = listed[i].Size
        /\ MatchString(config.KeyMatch, listed[i].Key)
        /\ TasksFor(listed[i].Key) = 0
        /\ TasksFor(listed[j].Key) = 1

(***************************************************************************)
(* C9.  GetObject is never called for an object whose declared size is a   *)
(* looks-empty signature of its suffix, while an object with a matching    *)
(* key that is one byte larger than a signature is not skipped in a        *)
(* content-search run: it becomes a Task, a worker that has searched it    *)
(* has called GetObject for it, and it has been fetched when the run       *)
(* completes with a worker that never failed.                              *)
(***************************************************************************)
OneByteLarger(obj) ==
    /\ MatchString(config.KeyMatch, obj.Key)
    /\ obj.Size - 1 \in LooksEmptySignatures(obj.Key)

C9_SignatureSizeNeverFetched ==
    /\ \A i \in 1..Len(bucket) :
          bucket[i].Size \in LooksEmptySignatures(bucket[i].Key)
              => bucket[i].Key \notin fetched
    /\ ~config.OnlyListKeyMatches =>
          /\ \A i \in 1..Len(listed) :
                OneByteLarger(listed[i]) => listed[i].Key \in PushedKeys
          /\ \A w \in Workers :
                worker[w].pc = "send" => worker[w].task.Key \in fetched
          /\ (sorted /\ FewerFailuresThanWorkers) =>
                \A i \in 1..Len(bucket) :
                    OneByteLarger(bucket[i]) => bucket[i].Key \in fetched

\* an archive one byte larger than its empty signature was fetched, and an
\* archive of exactly the signature size was listed with it
C9_Witness ==
    \E i, j \in 1..Len(listed) :
        /\ listed[i].Size \in {15, 21}
        /\ OneByteLarger(listed[i])
        /\ listed[i].Key \in fetched
        /\ listed[j].Size \in {14, 20}
        /\ listed[j].Size \in LooksEmptySignatures(listed[j].Key)

(***************************************************************************)
(* C10.  A run with -only-list-key-matches whose listing succeeds prints   *)
(* exactly the listed objects whose key matches -key-match, each once,     *)
(* whatever their declared sizes.                                          *)
(***************************************************************************)
PrintedTimes(k) == Cardinality({i \in 1..Len(stdout) : stdout[i] = k})

C10_KeyListingPrintsMatchingKeys ==
    (config.OnlyListKeyMatches /\ proc = "exit0") =>
        /\ \A i \in 1..Len(bucket) :
              PrintedTimes(bucket[i].Key) =
                  IF MatchString(config.KeyMatch, bucket[i].Key) THEN 1 ELSE 0
        /\ \A i \in 1..Len(stdout) : \E j \in 1..Len(bucket) : stdout[i] = bucket[j].Key

(***************************************************************************)
(* C11.  A run with -only-list-matching-objects (and without               *)
(* -only-list-key-matches) that ends with status 0 prints exactly the keys *)
(* of the objects with at least one line matching the content pattern: the *)
(* key of a searched object with no matching line is not printed.          *)
(***************************************************************************)
\* the keys of the collected Results with at least one ResultItem
KeysWithMatches ==
    {results[j].Task.Key : j \in {n \in 1..Len(results) : Len(results[n].Output) > 0}}

C11_ListsOnlyObjectsWithMatches ==
    (config.OnlyListMatchingObjects /\ ~config.OnlyListKeyMatches /\ proc = "exit0") =>
        /\ \A i \in 1..Len(stdout) : stdout[i] \in KeysWithMatches
        /\ \A k \in KeysWithMatches : PrintedTimes(k) = 1

(***************************************************************************)
(* C12.  In a run that ends with status 0, an object with zero matching    *)
(* lines never appears in full-report output: what is printed is the       *)
(* rendering of the Results that have a ResultItem, so there is no header  *)
(* and no line for a Result without one.  In the two key-listing modes it  *)
(* does appear whenever its key matches the key pattern.  The objects      *)
(* known to have zero matching lines are those of declared size 0 and      *)
(* those whose Result has no ResultItem.  Stated for runs with at least    *)
(* one worker.                                                             *)
(***************************************************************************)
FullReport == ~config.OnlyListKeyMatches /\ ~config.OnlyListMatchingObjects

\* the collected Results with at least one ResultItem, in their order
ResultsWithMatches == SelectSeq(results, LAMBDA r : Len(r.Output) > 0)

ZeroMatchingLines(obj) ==
    \/ obj.Size = 0
    \/ \E j \in 1..Len(results) :
          results[j].Task.Key = obj.Key /\ Len(results[j].Output) = 0

C12_ZeroMatchObjectOnlyInKeyListings ==
    (proc = "exit0" /\ config.MaxWorkers >= 1) =>
        /\ FullReport =>
              /\ \E width \in TtyWidths :
                    stdout = RenderResults(config, width, ResultsWithMatches, <<>>).lines
              /\ \A j \in 1..Len(results) :
                    Len(results[j].Output) = 0 =>
                        \A n \in 0..MaxLines, i \in 1..Len(stdout) :
                            stdout[i] # HeaderLine(results[j].Task.Key, n)
        /\ ~FullReport =>
              \A i \in 1..Len(bucket) :
                  (ZeroMatchingLines(bucket[i]) /\ MatchString(config.KeyMatch, bucket[i].Key))
                      => PrintedTimes(bucket[i].Key) = 1

(***************************************************************************)
(* C13.  Two runs over the same object set, with the same per-object fetch *)
(* outcomes and the same configuration, produce identical ordered output   *)
(* under every pair of worker interleavings.  Stated on one run: what a    *)
(* run prints is a function of its inputs alone.  The Tasks are the        *)
(* filter-passing objects in listing order; the Tasks dequeued are the     *)
(* prefix of them that ends at the MaxWorkers-th failing fetch; the sorted *)
(* slice is the sort of the Results of that prefix taken in Task order,    *)
(* whatever the order of arrival; the output is its rendering, and nothing *)
(* is printed before.  Whether the run hangs instead is also fixed by the  *)
(* inputs: it does when more Tasks than the queue holds are left behind.   *)
(***************************************************************************)
\* the keys of the objects of the store that pass the filter, in listing order
ExpectedTasks ==
    LET passing == SelectSeq(bucket, LAMBDA obj : PassesFilter(config.KeyMatch, obj))
    IN  [i \in 1..Len(passing) |-> passing[i].Key]

\* the Tasks that get dequeued when the fetches of the keys in failing fail:
\* each failure ends one of the live workers
RECURSIVE DequeuedPrefix(_, _, _)
DequeuedPrefix(keys, failing, live) ==
    IF keys = <<>> \/ live = 0 THEN <<>>
    ELSE <<Head(keys)>> \o DequeuedPrefix(Tail(keys), failing,
                               IF Head(keys) \in failing THEN live - 1 ELSE live)

ExpectedDequeued == DequeuedPrefix(ExpectedTasks, failed, config.MaxWorkers)

\* the collected Result of key k
ResultOf(k) == CHOOSE r \in Range(results) : r.Task.Key = k

\* the Results of the dequeued Tasks whose search succeeded, in Task order
ResultsInTaskOrder ==
    LET ok == SelectSeq(ExpectedDequeued, LAMBDA k : k \notin failed)
    IN  [i \in 1..Len(ok) |-> ResultOf(ok[i])]

\* more Tasks are left behind by the workers than the queue holds
TasksLeftOverflow == Len(ExpectedTasks) - Len(ExpectedDequeued) > TasksCap

\* a step of the discoverer, of a worker or of the goroutine that waits for
\* the group
GroupStep ==
    \/ DiscoverList \/ DiscoverPush \/ DiscoverReturn
    \/ \E w \in Workers : WorkerRecv(w) \/ WorkerSearch(w) \/ WorkerSelect(w)
    \/ WaitClose

\* the run hangs: printResults waits for the output channel to be closed and
\* no goroutine can take a step
Hangs == proc = "running" /\ ~outputClosed /\ ~ENABLED GroupStep

C13_OutputDeterminedByInputs ==
    /\ ~sorted => stdout = <<>>
    /\ sorted =>
          /\ pushed = ExpectedTasks
          /\ failed \cup ResultKeys = Range(ExpectedDequeued)
          /\ Len(results) = Len(ResultsInTaskOrder)
          /\ results = SortByTaskKey(ResultsInTaskOrder)
          /\ \E width \in TtyWidths :
                stdout = RenderResults(config, width, results, <<>>).lines
          /\ ~TasksLeftOverflow
    /\ Hangs =>
          /\ failed \subseteq Range(ExpectedDequeued)
          /\ TasksLeftOverflow

\* output was printed for Results that arrived in an order other than the
\* order of their Tasks, after a failed fetch
C13_Witness ==
    /\ proc = "exit0" /\ stdout # <<>> /\ failed # {}
    /\ \E i, j \in 1..Len(arrival) : \E m, n \in 1..Len(pushed) :
          /\ i < j /\ n < m
          /\ arrival[i] = pushed[m] /\ arrival[j] = pushed[n]

(***************************************************************************)
(* C14.  The final status of a run is failure if and only if a fatal error *)
(* occurred, that is a configuration error or a listing failure.  A fetch  *)
(* or decompression-setup error of one Task on its own never makes the     *)
(* status failure and never cancels the context of the group.              *)
(***************************************************************************)
\* the command line was rejected: log.Fatalf in ConfigureFromFlags or at the
\* set-up of the session, or a pattern that regexp.MustCompile rejects (its
\* panic comes before anything is sorted or printed)
ConfigurationError ==
    \/ fatalMsg \in {"cannot use -fit-to-tty and -colour simultaneously",
                     "error setting up S3 client"}
    \/ proc = "panic" /\ ~sorted /\ ~PatternsCompile

FatalErrorOccurred == ConfigurationError \/ ListingFailed

C14_FailureIffFatalError ==
    /\ Terminated => (proc # "exit0" <=> FatalErrorOccurred)
    /\ (failed # {} /\ ~FatalErrorOccurred) =>
          /\ proc \in {"running", "exit0"}
          /\ groupErr = "nil"
          /\ ctxDone => outputClosed

(***************************************************************************)
(* C15.  In full-report mode the collector prints, for every collected     *)
(* Result with at least one ResultItem, the header (when object keys are   *)
(* enabled) followed by every ResultItem of that Result in order, and then *)
(* goes on to the next Result, for matched lines of any length including   *)
(* length zero: once the Results are sorted the run ends with status 0     *)
(* and the output is the report of every Result in key order.              *)
(***************************************************************************)
\* a ResultItem as one printed line
PrintedItem(width, item) ==
    IF config.FitToTTY THEN leftN(item.Text, width + item.WidthAdjust)
    ELSE item.Text

\* the lines the report has for one Result
ReportOf(width, r) ==
    IF Len(r.Output) = 0 THEN <<>>
    ELSE (IF config.ObjectKeys THEN <<HeaderLine(r.Task.Key, Len(r.Output))>> ELSE <<>>)
         \o [i \in 1..Len(r.Output) |-> PrintedItem(width, r.Output[i])]
         \o (IF config.ExtraNewlines THEN << <<>> >> ELSE <<>>)
         \o (IF config.ObjectKeys THEN << <<>> >> ELSE <<>>)

RECURSIVE ReportOfAll(_, _)
ReportOfAll(width, rs) ==
    IF rs = <<>> THEN <<>> ELSE ReportOf(width, Head(rs)) \o ReportOfAll(width, Tail(rs))

C15_EveryResultRendered ==
    (sorted /\ FullReport) =>
        /\ proc = "exit0"
        /\ \E width \in TtyWidths : stdout = ReportOfAll(width, results)

(***************************************************************************)
(* C16.  The task queue never holds more Tasks than its capacity.  The     *)
(* discoverer's push is blocked exactly while the queue is full: at a      *)
(* filter-passing object the callback can step if and only if the queue    *)
(* has room.  A blocked push resumes only after a worker has dequeued: no  *)
(* step from a full queue pushes, and only a worker's receive of the head  *)
(* makes the queue shorter.                                                *)
(***************************************************************************)
\* the discoverer is at the send of a Task
AtPush ==
    /\ proc = "running" /\ dpc = "page" /\ dpage # <<>>
    /\ PassesFilter(config.KeyMatch, Head(dpage))

QueueFull == Len(tasks) = TasksCap

\* worker w has received the head of the queue in this step
Dequeues(w) ==
    /\ worker[w].pc = "recv" /\ worker'[w].pc = "search"
    /\ worker'[w].task = Head(tasks)
    /\ tasks' = Tail(tasks)

C16_QueueBoundedPushBlocksWhenFull ==
    /\ [](Len(tasks) <= TasksCap)
    /\ [](AtPush => (ENABLED DiscoverPush <=> ~QueueFull))
    /\ [][QueueFull => pushed' = pushed]_vars
    /\ [][tasks' # tasks =>
            \/ tasks' = Append(tasks, [Key |-> pushed'[Len(pushed')]]) /\ ~QueueFull
            \/ \E w \in Workers : Dequeues(w)]_vars

\* the discoverer is blocked on a full queue after an earlier push that had
\* to wait for a worker
C16_Witness == AtPush /\ QueueFull /\ Len(pushed) > TasksCap

(***************************************************************************)
(* C17.  Each Task pushed by the discoverer is dequeued at most once and   *)
(* by at most one worker, under every interleaving of the workers, so the  *)
(* collector never receives two Results for one Task.  Every pushed Task   *)
(* is at any time in exactly one place: in the queue, held by one worker,  *)
(* delivered as a Result, or logged as failed.                             *)
(***************************************************************************)
\* the workers that hold the Task with key k
Holders(k) ==
    {w \in Workers : worker[w].pc \in {"search", "send"} /\ worker[w].task.Key = k}

QueuedTimes(k) == Cardinality({i \in 1..Len(tasks) : tasks[i].Key = k})

ArrivedTimes(k) == Cardinality({i \in 1..Len(arrival) : arrival[i] = k})

C17_TaskDequeuedAtMostOnce ==
    \A i \in 1..Len(pushed) :
        LET k == pushed[i]
        IN  /\ QueuedTimes(k) + Cardinality(Holders(k)) + ArrivedTimes(k)
                  + (IF k \in failed THEN 1 ELSE 0) = 1
            /\ ResultsFor(k) = ArrivedTimes(k)
            /\ ResultsFor(k) <= 1

\* two workers hold different Tasks at once after a Result has been delivered
C17_Witness ==
    /\ \E v, w \in Workers :
          /\ v # w
          /\ worker[v].pc \in {"search", "send"} /\ worker[w].pc \in {"search", "send"}
          /\ worker[v].task # worker[w].task
    /\ Len(results) >= 1

(***************************************************************************)
(* C18.  The discoverer closes the task queue exactly once, only after     *)
(* every filter-passing object of every listed page has been pushed: the   *)
(* queue is closed by the discoverer's return after the last page, when    *)
(* the whole listing has been looked at and every passing object pushed    *)
(* (or by the panic of a rejected key pattern, before any page), it is     *)
(* closed whenever the Results get sorted, and the discoverer does nothing *)
(* after the close.  No Task is pushed once the queue is closed.  Tasks    *)
(* are enqueued in the store's listing order: the Tasks pushed are a       *)
(* prefix of the passing objects in listing order, and the queue holds the *)
(* last of them in that order.                                             *)
(***************************************************************************)
C18_QueueClosedOnceAfterAllPushed ==
    /\ [](tasksClosed =>
            \/ dpc = "done" /\ dpage = <<>> /\ listed = bucket /\ pushed = ExpectedTasks
            \/ proc = "panic" /\ ~Compiles(config.KeyMatch) /\ listed = <<>> /\ pushed = <<>>)
    /\ [](dpc = "done" => tasksClosed)
    /\ [](sorted => tasksClosed)
    /\ [][tasksClosed' # tasksClosed => ~tasksClosed /\ dpc # "done"]_vars
    /\ [][tasksClosed => (tasksClosed' /\ pushed' = pushed /\ listed' = listed /\ dpc' = dpc)]_vars
    /\ [](/\ Len(pushed) <= Len(ExpectedTasks)
          /\ pushed = SubSeq(ExpectedTasks, 1, Len(pushed))
          /\ Len(tasks) <= Len(pushed)
          /\ \A i \in 1..Len(tasks) :
                tasks[i].Key = pushed[Len(pushed) - Len(tasks) + i])

\* the queue was closed after a listing of more than one page of which some
\* objects were pushed and some were not
C18_Witness ==
    /\ tasksClosed /\ dpc = "done"
    /\ Len(listed) > PageLen
    /\ Len(pushed) >= 2 /\ Len(pushed) < Len(listed)

(***************************************************************************)
(* C19.  When the Task of a worker fails at the fetch or at the set-up of  *)
(* the decompression, that worker emits no Result for it, does not retry   *)
(* it, leaves its loop and never dequeues another Task.  The other workers *)
(* are not cancelled: the failure changes no other worker, no error is     *)
(* kept by the group and the context stays live, and a worker leaves its   *)
(* loop only by a failure of its own Task or at a closed and drained       *)
(* queue, being able to dequeue whenever the queue holds a Task.           *)
(***************************************************************************)
\* worker w logs the failure of its Task in this step
FailsTask(w) ==
    /\ worker[w].pc = "search"
    /\ worker[w].task.Key \notin failed
    /\ worker[w].task.Key \in failed'

C19_FailedWorkerLeavesOthersContinue ==
    /\ [](\A k \in failed :
            /\ ResultsFor(k) = 0 /\ ArrivedTimes(k) = 0
            /\ QueuedTimes(k) = 0 /\ Holders(k) = {}
            /\ k \in fetched)
    /\ [](Cardinality(failed) = Cardinality({w \in Workers : worker[w].pc = "exited"})
            \/ tasksClosed)
    /\ [][\A w \in Workers :
            FailsTask(w) =>
                /\ worker'[w].pc = "exited"
                /\ \A v \in Workers \ {w} : worker'[v] = worker[v]
                /\ UNCHANGED <<tasks, results, arrival, ctxDone, groupErr, proc>>]_vars
    /\ [][\A w \in Workers :
            worker[w].pc = "exited" => worker'[w] = worker[w]]_vars
    /\ [][\A w \in Workers :
            (worker[w].pc # "exited" /\ worker'[w].pc = "exited") =>
                \/ FailsTask(w)
                \/ worker[w].pc = "recv" /\ tasks = <<>> /\ tasksClosed]_vars
    /\ [](failed # {} /\ ~outputClosed => ~ctxDone /\ groupErr = "nil")
    /\ [](\A w \in Workers :
            (proc = "running" /\ worker[w].pc = "recv" /\ tasks # <<>>)
                => ENABLED WorkerRecv(w))

\* the first Task failed and the Results of two later Tasks were delivered
\* by the workers left
C19_Witness ==
    /\ pushed # <<>> /\ failed = {pushed[1]}
    /\ Len(arrival) >= 2
    /\ \E w \in Workers : worker[w].pc = "exited"

C21_KeyListingNeverFetches ==
    config.OnlyListKeyMatches =>
        /\ fetched = {} /\ failed = {}
        /\ \A w \in Workers :
              /\ worker[w].pc = "send" =>
                    worker[w].result = [Task |-> worker[w].task, Output |-> <<>>]
              /\ worker[w].pc = "exited" => tasks = <<>> /\ tasksClosed
        /\ \A j \in 1..Len(results) : results[j].Output = <<>>
        /\ \A i \in 1..Len(pushed) : ResultsFor(pushed[i]) <= 1
        /\ config.MaxWorkers >= 1 =>
              /\ ~Hangs
              /\ proc \notin {"running", "exit0"} => ~sorted
              /\ sorted =>
                    /\ proc = "exit0"
                    /\ \A i \in 1..Len(pushed) :
                          ResultsFor(pushed[i]) = 1 /\ PrintedTimes(pushed[i]) = 1
                    /\ Len(results) = Len(pushed) /\ Len(stdout) = Len(pushed)

\* a key listing of several Tasks handled by two workers has been printed
C21_Witness ==
    /\ config.OnlyListKeyMatches /\ proc = "exit0"
    /\ config.MaxWorkers >= 2
    /\ Len(pushed) >= 2 /\ Len(stdout) = Len(pushed)
    /\ Len(pushed) < Len(listed)

(***************************************************************************)
(* C22.  For every fetched object, the ResultItems of its Result are       *)
(* exactly the lines of the object that the content matcher reports as     *)
(* matched, one item per matching line, in the line order of the object:   *)
(* no matching line is missing, no item is reordered or duplicated.        *)
(***************************************************************************)
\* the body of the object with key k in a store whose content is given
BodyOf(k) ==
    LET i == CHOOSE n \in 1..Len(bucket) : bucket[n].Key = k IN bucket[i].Body

\* the positions of the lines the content matcher matches
MatchingLines(lines) ==
    {i \in 1..Len(lines) :
        MatcherFunc(config.MatcherFunc, config.ContentMatch, lines[i]).matched}

\* out has one item per matching line of lines, in the order of the lines
ItemsOfMatchingLines(out, lines) ==
    LET at == MatchingLines(lines)
    IN  /\ Len(out) = Cardinality(at)
        /\ \A i \in at :
              out[Cardinality({j \in at : j <= i})] =
                  MatcherFunc(config.MatcherFunc, config.ContentMatch, lines[i]).item

C22_ItemsAreMatchingLinesInOrder ==
    /\ \A w \in Workers :
          worker[w].pc = "send" =>
              /\ worker[w].task.Key \in fetched
              /\ ItemsOfMatchingLines(worker[w].result.Output, BodyOf(worker[w].task.Key))
    /\ \A j \in 1..Len(results) :
          /\ results[j].Task.Key \in fetched
          /\ ItemsOfMatchingLines(results[j].Output, BodyOf(results[j].Task.Key))

(***************************************************************************)
(* C23.  The context of the group is never cancelled while the discoverer  *)
(* or a worker is still running: no function of the group returns a        *)
(* non-nil error, so the group keeps no error, the ctx.Done() case of the  *)
(* worker's select is never ready and never taken, and every Result a      *)
(* worker has built is handed to the collector: the only step of a worker  *)
(* that holds a Result is the send, which it can take as long as the       *)
(* process runs, and no worker holds a Result when the channel is closed.  *)
(***************************************************************************)
C23_NeverCancelledWhileRunning ==
    /\ [](ctxDone => dpc = "done" /\ \A w \in Workers : worker[w].pc = "exited")
    /\ [](groupErr = "nil")
    /\ [](\A w \in Workers :
            worker[w].pc = "send" =>
                /\ ~ctxDone /\ ~outputClosed /\ ReadyCases = {"send"}
                /\ proc = "running" => ENABLED WorkerSelect(w))
    /\ [][\A w \in Workers :
            (worker[w].pc = "send" /\ worker'[w] # worker[w]) =>
                /\ results' = Append(results, worker[w].result)
                /\ worker'[w].pc = "recv"]_vars
    /\ [](outputClosed => Len(arrival) + Cardinality(failed) + Len(tasks) = Len(pushed))

\* a worker holds a Result after the Task of another worker has failed and
\* the discoverer has returned
C23_Witness ==
    /\ failed # {} /\ dpc = "done" /\ ~ctxDone
    /\ \E w \in Workers : worker[w].pc = "send" /\ Len(worker[w].result.Output) > 0

====
